---- MODULE Spec2Model ----
(***************************************************************************)
(* IncidentIQ: the 4-stage hybrid retrieval pipeline                       *)
(* (src/src/core/retrieval.py), the confidence classifier                  *)
(* (src/src/core/pattern_matching_v2.py, pattern_matching.py), the         *)
(* settings (src/src/core/config.py) and the retry wrapper, circuit        *)
(* breaker and rate limiter of src/src/core/utils.py.                      *)
(*                                                                         *)
(* Scores are Python floats in [0,1]. They are modelled as exact fixed     *)
(* point integers in units of 1/One (One = 10^7), a unit in which every    *)
(* product and quotient the code forms on the modelled inputs is exact and *)
(* stays below 2^31. Latencies and timestamps of the metrics records are   *)
(* wall-clock readings and are left out.                                   *)
(***************************************************************************)
EXTENDS Integers, Sequences, FiniteSets, TLC

VARIABLES
    pc,                    \* position of HybridRetrievalPipeline.search
    limit,                 \* search(limit=...)
    filters,               \* TRUE iff search(filters=...) is a non-empty dict
    config,                \* the stage components' enabled/model fields
    bm25_candidates,       \* locals of search, in the order it binds them
    bi_encoder_candidates,
    merged,
    colbert_candidates,
    final_candidates,
    all_metrics,
    result,                \* the PipelineResult returned, NoResult before
    raised,                \* the exception leaving search, NoError before
    stages_run,            \* history: stage methods entered, in order
    faults,                \* history: the calls that raised, by stage and error
    cls,                   \* one call of _calculate_confidence
    mrg,                   \* one call of _merge_candidates
    deadline_at,           \* the position of search at which the caller's
                           \* overall deadline passes, "never" if it does not
    call,                  \* one direct call of a stage method, of a scoring
                           \* helper, of the result views or of the settings
                           \* constructor; op names the callee
    engine,                \* an EnhancedPatternMatchingEngine and its calls
    runs,                  \* two search coroutines on one pipeline instance
    retry,                 \* one call through an async_retry wrapper
    breaker,               \* a CircuitBreaker, its callers and the clock
    limiter                \* a RateLimiter, its callers and the clock

pipeVars == <<pc, limit, filters, config, bm25_candidates, bi_encoder_candidates,
              merged, colbert_candidates, final_candidates, all_metrics, result,
              raised, stages_run, faults, deadline_at>>
utilVars == <<runs, retry, breaker, limiter>>
vars == <<pipeVars, cls, mrg, call, engine, utilVars>>

-----------------------------------------------------------------------------
(* Bounds of the model *)

MaxResults == 2      \* most hits one index query returns
MaxLimit == 2        \* largest limit a caller passes
MaxMergeLen == 2     \* longest list handed to _merge_candidates directly
MaxCalls == 4        \* most find_similar_incidents calls on one engine
MaxTopK == 2         \* largest top_k a directly called CrossEncoderStage has
MaxBeyondSlice == 2  \* candidates passed to ColBERTStage.score past its slice
MaxAttempts == 3     \* largest max_attempts given to async_retry
MaxClock == 4        \* last reading of time.time() a breaker or limiter sees

-----------------------------------------------------------------------------
(* Program constants *)

ColbertSlice == 50        \* candidates[:50] of ColBERTStage.score
ColbertLimit == 20        \* limit=20 search passes to ColBERTStage.score
DefaultTopK == 20         \* CrossEncoderStage(top_k=20)
ExactDefault == 92        \* exact_match_threshold default 0.92, in hundredths
PartialDefault == 70      \* partial_match_threshold default 0.70, in hundredths

-----------------------------------------------------------------------------
(* Fixed point scores *)

One == 100 * 100000
Pct(h) == h * 100000                 \* h hundredths, e.g. Pct(92) is 0.92

Ids == {"INC-1", "INC-2", "INC-3"}

KeywordScores == {Pct(60), Pct(90)}      \* scores the lexical index returns
SemanticScores == {Pct(80), Pct(95)}     \* scores the vector index returns
DetailScores == {Pct(75), Pct(93)}       \* cosine similarities of stage 3

-----------------------------------------------------------------------------
(* Sequence helpers: Python list operations *)

\* Take with a seeded fault: the slice forgotten, the whole list returned
TakeUncut(s, n) == s

\* the smaller of two numbers
Min(a, b) == IF a < b THEN a ELSE b

\* s[:n] for n >= 0
Take(s, n) == SubSeq(s, 1, IF n < Len(s) THEN n ELSE Len(s))

RECURSIVE InsertDesc(_, _, _)
\* x placed behind every element whose key is >= its own
InsertDesc(s, x, key) ==
    IF s = << >> THEN <<x>>
    ELSE IF Head(s)[key] >= x[key]
         THEN <<Head(s)>> \o InsertDesc(Tail(s), x, key)
         ELSE <<x>> \o s

RECURSIVE SortDescFrom(_, _, _)
SortDescFrom(acc, s, key) ==
    IF s = << >> THEN acc
    ELSE SortDescFrom(InsertDesc(acc, Head(s), key), Tail(s), key)

\* list.sort(key=lambda c: c.<key>, reverse=True): stable, descending
SortDesc(s, key) == SortDescFrom(<< >>, s, key)

IdsOf(s) == [i \in 1..Len(s) |-> s[i].incident_id]

\* the list s after in-place writes left the objects as in written
WriteThrough(s, written) ==
    [i \in 1..Len(s) |->
        IF \E k \in 1..Len(written) : written[k].obj = s[i].obj
        THEN written[CHOOSE k \in 1..Len(written) : written[k].obj = s[i].obj]
        ELSE s[i]]

Distinct(s) == \A i, j \in 1..Len(s) : i # j => s[i] # s[j]

-----------------------------------------------------------------------------
(* Data model *)

BM25_FILTER == "bm25_filter"
BI_ENCODER == "bi_encoder"
COLBERT == "colbert_late_interaction"
CROSS_ENCODER == "cross_encoder"

\* RetrievalMetrics with a seeded fault: the two counts change places
RetrievalMetricsSwapped(stage, cin, cout) ==
    [stage |-> stage, candidates_in |-> cout, candidates_out |-> cin]

RetrievalMetrics(stage, cin, cout) ==
    [stage |-> stage, candidates_in |-> cin, candidates_out |-> cout]

\* CandidateIncident(incident_id, title, payload, <one stage score>): every
\* other field takes its dataclass default. obj is the identity of the Python
\* object (the lists of a run share their candidate objects); final_writes
\* counts the assignments to final_score (history field).
CandidateIncident(obj, id, title, payload, bm25, bi) ==
    [obj |-> obj, incident_id |-> id, title |-> title, payload |-> payload,
     bm25_score |-> bm25, bi_encoder_score |-> bi,
     colbert_score |-> 0, cross_encoder_score |-> 0,
     final_score |-> 0, match_reasons |-> << >>, final_writes |-> 0]

NoResult == [returned |-> FALSE]

\* PipelineResult with a seeded fault: nothing is returned for no matches
PipelineResultNone(matches, metrics) ==
    IF matches = << >> THEN NoResult
    ELSE [returned |-> TRUE, matches |-> matches, metrics |-> metrics]

PipelineResult(matches, metrics) ==
    [returned |-> TRUE, matches |-> matches, metrics |-> metrics]

\* PipelineResult.exact_matches: the literal 0.92, whatever the settings say
exact_matches(r) ==
    SelectSeq(r.matches, LAMBDA m : m.final_score >= Pct(92))

\* PipelineResult.partial_matches: the literals 0.70 and 0.92
partial_matches(r) ==
    SelectSeq(r.matches, LAMBDA m : Pct(70) <= m.final_score /\ m.final_score < Pct(92))

NoError == [raised |-> FALSE]

-----------------------------------------------------------------------------
(* Pure functions of the orchestrator and of the engine *)

RECURSIVE MergeFrom(_, _, _)
\* the loop of _merge_candidates over list1 + list2
MergeFrom(seen, out, rest) ==
    IF rest = << >> THEN out
    ELSE IF Head(rest).incident_id \notin seen
         THEN MergeFrom(seen \cup {Head(rest).incident_id},
                        Append(out, Head(rest)), Tail(rest))
         ELSE MergeFrom(seen, out, Tail(rest))

\* _merge_candidates with a seeded fault: the second list is walked first
_merge_candidates_semantic_first(list1, list2) == MergeFrom({}, << >>, list2 \o list1)

\* _merge_candidates with a seeded fault: only list2 is checked, against the
\* ids of list1
_merge_candidates_list2_only(list1, list2) ==
    list1 \o SelectSeq(list2, LAMBDA c :
                \A i \in 1..Len(list1) : list1[i].incident_id # c.incident_id)

_merge_candidates(list1, list2) == MergeFrom({}, << >>, list1 \o list2)

\* _calculate_final_score with a seeded fault: two stages' weights exchanged
_calculate_final_score_swapped(c) ==
    (10 * c.bm25_score + 40 * c.bi_encoder_score
       + 25 * c.colbert_score + 25 * c.cross_encoder_score) \div 100

\* _calculate_final_score with a seeded fault: the colbert term is subtracted
_calculate_final_score_penalised(c) ==
    (10 * c.bm25_score + 25 * c.bi_encoder_score
       - 40 * c.colbert_score + 25 * c.cross_encoder_score) \div 100

\* 0.10*bm25 + 0.25*bi_encoder + 0.40*colbert + 0.25*cross_encoder
_calculate_final_score(c) ==
    (10 * c.bm25_score + 25 * c.bi_encoder_score
       + 40 * c.colbert_score + 25 * c.cross_encoder_score) \div 100

\* _explain_match with a seeded fault: >= in place of > on every test
_explain_match_inclusive(c) ==
    (IF c.bm25_score >= Pct(80) THEN <<"Strong keyword match">> ELSE << >>)
    \o (IF c.bi_encoder_score >= Pct(90) THEN <<"High semantic similarity">> ELSE << >>)
    \o (IF c.colbert_score >= Pct(90) THEN <<"Token-level precision match">> ELSE << >>)
    \o (IF c.cross_encoder_score >= Pct(90) THEN <<"Cross-encoder verified">> ELSE << >>)

\* HybridRetrievalPipeline._explain_match
_explain_match(c) ==
    (IF c.bm25_score > Pct(80) THEN <<"Strong keyword match">> ELSE << >>)
    \o (IF c.bi_encoder_score > Pct(90) THEN <<"High semantic similarity">> ELSE << >>)
    \o (IF c.colbert_score > Pct(90) THEN <<"Token-level precision match">> ELSE << >>)
    \o (IF c.cross_encoder_score > Pct(90) THEN <<"Cross-encoder verified">> ELSE << >>)

\* _calculate_confidence with a seeded fault: > in place of >= on the first test
_calculate_confidence_strict(score, exact_match_threshold, partial_match_threshold) ==
    IF score > exact_match_threshold THEN "EXACT"
    ELSE IF score >= partial_match_threshold THEN "PARTIAL"
    ELSE "NONE"

\* EnhancedPatternMatchingEngine._calculate_confidence (the legacy engine's
\* is the same text), with the two settings it reads passed in
_calculate_confidence(score, exact_match_threshold, partial_match_threshold) ==
    IF score >= exact_match_threshold THEN "EXACT"
    ELSE IF score >= partial_match_threshold THEN "PARTIAL"
    ELSE "NONE"

-----------------------------------------------------------------------------
(* Collaborators: what an index query can answer *)

\* a ranked list of at most MaxResults hits, ids distinct, best score first
Hits(scores) ==
    UNION { { h \in [1..n -> [id : Ids, score : scores]] :
                /\ \A i, j \in 1..n : i # j => h[i].id # h[j].id
                /\ \A i \in 1..n : i < n => h[i].score >= h[i + 1].score }
            : n \in 0..MaxResults }

-----------------------------------------------------------------------------
(* Stage methods, as the values they return *)

\* BM25FilterStage.search after the index answered with hits
BM25Search(hits) ==
    LET candidates == [i \in 1..Len(hits) |->
            CandidateIncident(<<BM25_FILTER, i>>, hits[i].id,
                              "incidents_bm25", "incidents_bm25",
                              hits[i].score, 0)]
    IN [candidates |-> candidates,
        metrics |-> RetrievalMetrics(BM25_FILTER, Len(candidates), Len(candidates))]

\* BiEncoderSearch with a seeded fault: the stage fills in final_score
BiEncoderSearchScored(hits) ==
    LET candidates == [i \in 1..Len(hits) |->
            [CandidateIncident(<<BI_ENCODER, i>>, hits[i].id,
                               "incidents_summary", "incidents_summary",
                               0, hits[i].score)
                EXCEPT !.final_score = hits[i].score]]
    IN [candidates |-> candidates,
        metrics |-> RetrievalMetrics(BI_ENCODER, Len(candidates), Len(candidates))]

\* BiEncoderStage.search after the index answered with hits
BiEncoderSearch(hits) ==
    LET candidates == [i \in 1..Len(hits) |->
            CandidateIncident(<<BI_ENCODER, i>>, hits[i].id,
                              "incidents_summary", "incidents_summary",
                              0, hits[i].score)]
    IN [candidates |-> candidates,
        metrics |-> RetrievalMetrics(BI_ENCODER, Len(candidates), Len(candidates))]

\* ColBERTScore with a seeded fault: the disabled branch cuts to the limit
ColBERTScoreCut(enabled, candidates, similarity, lim) ==
    LET passed == [i \in 1..Len(candidates) |->
            [candidates[i] EXCEPT !.colbert_score = candidates[i].bi_encoder_score]]
    IN [candidates |-> SubSeq(passed, 1, IF lim < Len(passed) THEN lim ELSE Len(passed)),
        written |-> passed,
        metrics |-> RetrievalMetrics(COLBERT, Len(candidates), Len(candidates))]

\* ColBERTScore with a seeded fault: the enabled branch scores every candidate
ColBERTScoreWhole(enabled, candidates, similarity, lim) ==
    LET rescored == [i \in 1..Len(candidates) |->
           [candidates[i] EXCEPT !.colbert_score = similarity[candidates[i].incident_id]]]
        scored == SortDesc(rescored, "colbert_score")
    IN [candidates |-> Take(scored, lim), written |-> rescored,
        metrics |-> RetrievalMetrics(COLBERT, Len(candidates), Len(Take(scored, lim)))]

\* ColBERTStage.score; similarity[id] is the cosine similarity the embeddings
\* of the query and of that candidate's detail text give. written: the
\* candidate objects the call assigned to, as they stand afterwards
ColBERTScore(enabled, candidates, similarity, lim) ==
    IF ~enabled
    THEN LET passed == [i \in 1..Len(candidates) |->
                [candidates[i] EXCEPT !.colbert_score = candidates[i].bi_encoder_score]]
         IN [candidates |-> passed, written |-> passed,
             metrics |-> RetrievalMetrics(COLBERT, Len(candidates), Len(candidates))]
    ELSE LET head == Take(candidates, ColbertSlice)
             rescored == [i \in 1..Len(head) |->
                [head[i] EXCEPT !.colbert_score = similarity[head[i].incident_id]]]
             scored == SortDesc(rescored, "colbert_score")
         IN [candidates |-> Take(scored, lim), written |-> rescored,
             metrics |-> RetrievalMetrics(COLBERT, Len(candidates), Len(Take(scored, lim)))]

\* the placeholder score of CrossEncoderStage.rerank for the candidate at
\* 0-based position i: the weighted sum times (1.0 - i*0.01)
CrossEncoderScore(c, i) ==
    (((10 * c.bm25_score + 25 * c.bi_encoder_score
        + 40 * c.colbert_score + 25 * c.bi_encoder_score) \div 100) * (100 - i)) \div 100

\* CrossEncoderRerank with a seeded fault: the disabled branch is never taken
CrossEncoderRerankAlways(enabled, model, top_k, candidates, lim) ==
    LET head == Take(candidates, top_k)
        rescored == [i \in 1..Len(head) |->
           [head[i] EXCEPT !.cross_encoder_score = CrossEncoderScore(head[i], i - 1)]]
        reranked == SortDesc(rescored, "cross_encoder_score")
    IN [candidates |-> Take(reranked, lim), written |-> rescored,
        metrics |-> RetrievalMetrics(CROSS_ENCODER, Len(candidates),
                                     Len(Take(reranked, lim)))]

\* CrossEncoderRerank with a seeded fault: the enabled branch skips the
\* [:top_k] slices
CrossEncoderRerankWhole(enabled, model, top_k, candidates, lim) ==
    IF ~enabled \/ ~model
    THEN [candidates |-> Take(candidates, lim), written |-> << >>,
          metrics |-> RetrievalMetrics(CROSS_ENCODER, Len(candidates),
                                       Len(Take(candidates, lim)))]
    ELSE LET rescored == [i \in 1..Len(candidates) |->
                [candidates[i] EXCEPT
                    !.cross_encoder_score = CrossEncoderScore(candidates[i], i - 1)]]
             reranked == SortDesc(rescored, "cross_encoder_score")
         IN [candidates |-> Take(reranked, lim), written |-> rescored,
             metrics |-> RetrievalMetrics(CROSS_ENCODER, Len(candidates),
                                          Len(Take(reranked, lim)))]

\* CrossEncoderStage.rerank
CrossEncoderRerank(enabled, model, top_k, candidates, lim) ==
    IF ~enabled \/ ~model
    THEN [candidates |-> Take(candidates, lim), written |-> << >>,
          metrics |-> RetrievalMetrics(CROSS_ENCODER, Len(candidates),
                                       Len(Take(candidates, lim)))]
    ELSE LET head == Take(candidates, top_k)
             rescored == [i \in 1..Len(head) |->
                [head[i] EXCEPT !.cross_encoder_score = CrossEncoderScore(head[i], i - 1)]]
             reranked == SortDesc(rescored, "cross_encoder_score")
         IN [candidates |-> Take(reranked, lim), written |-> rescored,
             metrics |-> RetrievalMetrics(CROSS_ENCODER, Len(candidates),
                                          Len(Take(reranked, lim)))]

\* the final loop of search: final_score and match_reasons of one candidate
FinalScoring(c) ==
    [c EXCEPT !.final_score = _calculate_final_score(c),
              !.match_reasons = _explain_match(c),
              !.final_writes = @ + 1]

-----------------------------------------------------------------------------
(* HybridRetrievalPipeline.search, one run *)

\* NextPosition with a seeded fault: a short re-rank input sends the run back
\* to stage 3
NextPositionRescore(p) ==
    CASE p = "stage1" -> "stage2"
      [] p = "stage2" -> "merge"
      [] p = "merge" -> "stage3"
      [] p = "stage3" -> "stage4"
      [] p = "stage4" -> IF Len(colbert_candidates) < limit THEN "stage3" ELSE "final"
      [] p = "final" -> "done"

\* the statement search reaches after the one at position p completed
NextPosition(p) ==
    CASE p = "stage1" -> "stage2"
      [] p = "stage2" -> "merge"
      [] p = "merge" -> "stage3"
      [] p = "stage3" -> "stage4"
      [] p = "stage4" -> "final"
      [] p = "final" -> "done"

Raised(stage, type) == [raised |-> TRUE, stage |-> stage, type |-> type,
                        stage_metrics |-> << >>]

\* an exception leaves a stage: search has no handler, so it leaves search
\* unchanged, and nothing of the run's locals travels with it
Propagate(stage, type) ==
    /\ pc' = "failed"
    /\ raised' = Raised(stage, type)
    /\ stages_run' = Append(stages_run, stage)
    /\ faults' = faults \cup {[stage |-> stage, type |-> type]}
    /\ UNCHANGED <<limit, filters, config, bm25_candidates, bi_encoder_candidates,
                   merged, colbert_candidates, final_candidates, all_metrics, result>>

\* STAGE 1: await self.bm25.search(...)
Stage1BM25 ==
    /\ pc = "stage1"
    /\ \/ /\ ~filters
          /\ \E hits \in Hits(KeywordScores) :
               LET r == BM25Search(hits)
               IN /\ bm25_candidates' = r.candidates
                  /\ all_metrics' = Append(all_metrics, r.metrics)
          /\ pc' = NextPosition(pc)
          /\ stages_run' = Append(stages_run, BM25_FILTER)
          /\ UNCHANGED <<limit, filters, config, bi_encoder_candidates, merged,
                         colbert_candidates, final_candidates, result, raised, faults>>
       \/ \* self._build_filters is defined nowhere
          /\ filters
          /\ Propagate(BM25_FILTER, "AttributeError")
       \/ \* the index call raises
          /\ ~filters
          /\ Propagate(BM25_FILTER, "ConnectionError")
    /\ UNCHANGED <<cls, mrg, deadline_at, call, engine, utilVars>>

\* STAGE 2: await self.bi_encoder.search(...)
Stage2BiEncoder ==
    /\ pc = "stage2"
    /\ \/ /\ \E hits \in Hits(SemanticScores) :
               LET r == BiEncoderSearch(hits)
               IN /\ bi_encoder_candidates' = r.candidates
                  /\ all_metrics' = Append(all_metrics, r.metrics)
          /\ pc' = NextPosition(pc)
          /\ stages_run' = Append(stages_run, BI_ENCODER)
          /\ UNCHANGED <<limit, filters, config, bm25_candidates, merged,
                         colbert_candidates, final_candidates, result, raised, faults>>
       \/ \* embed raises once its retries are used up
          Propagate(BI_ENCODER, "EmbeddingError")
       \/ \* the index call raises
          Propagate(BI_ENCODER, "ConnectionError")
    /\ UNCHANGED <<cls, mrg, deadline_at, call, engine, utilVars>>

\* merged = self._merge_candidates(bm25_candidates, bi_encoder_candidates)
MergeStep ==
    /\ pc = "merge"
    /\ merged' = _merge_candidates(bm25_candidates, bi_encoder_candidates)
    /\ pc' = NextPosition(pc)
    /\ UNCHANGED <<limit, filters, config, bm25_candidates, bi_encoder_candidates,
                   colbert_candidates, final_candidates, all_metrics, result,
                   raised, stages_run, faults>>
    /\ UNCHANGED <<cls, mrg, deadline_at, call, engine, utilVars>>

\* STAGE 3: await self.colbert.score(query, merged, limit=20)
Stage3ColBERT ==
    /\ pc = "stage3"
    /\ \/ /\ \E similarity \in [{merged[i].incident_id : i \in 1..Len(merged)}
                                    -> DetailScores] :
               LET r == ColBERTScore(config.colbert_enabled, merged, similarity,
                                     ColbertLimit)
               IN /\ colbert_candidates' = r.candidates
                  /\ all_metrics' = Append(all_metrics, r.metrics)
                  /\ bm25_candidates' = WriteThrough(bm25_candidates, r.written)
                  /\ bi_encoder_candidates' = WriteThrough(bi_encoder_candidates, r.written)
                  /\ merged' = WriteThrough(merged, r.written)
          /\ pc' = NextPosition(pc)
          /\ stages_run' = Append(stages_run, COLBERT)
          /\ UNCHANGED <<limit, filters, config, final_candidates, result, raised, faults>>
       \/ \* embed raises while a candidate is being scored (the scores
          \* already written stay on objects no caller sees again)
          /\ config.colbert_enabled
          /\ merged # << >>
          /\ Propagate(COLBERT, "EmbeddingError")
    /\ UNCHANGED <<cls, mrg, deadline_at, call, engine, utilVars>>

\* STAGE 4: await self.cross_encoder.rerank(query, colbert_candidates, limit)
Stage4CrossEncoder ==
    /\ pc = "stage4"
    /\ LET r == CrossEncoderRerank(config.cross_enabled, config.cross_model,
                                   config.top_k, colbert_candidates, limit)
       IN /\ final_candidates' = r.candidates
          /\ all_metrics' = Append(all_metrics, r.metrics)
          /\ bm25_candidates' = WriteThrough(bm25_candidates, r.written)
          /\ bi_encoder_candidates' = WriteThrough(bi_encoder_candidates, r.written)
          /\ merged' = WriteThrough(merged, r.written)
          /\ colbert_candidates' = WriteThrough(colbert_candidates, r.written)
    /\ pc' = NextPosition(pc)
    /\ stages_run' = Append(stages_run, CROSS_ENCODER)
    /\ UNCHANGED <<limit, filters, config, result, raised, faults>>
    /\ UNCHANGED <<cls, mrg, deadline_at, call, engine, utilVars>>

\* the final scoring loop and the return of the PipelineResult
Finalize ==
    /\ pc = "final"
    /\ LET scored == [i \in 1..Len(final_candidates) |-> FinalScoring(final_candidates[i])]
       IN /\ final_candidates' = scored
          /\ bm25_candidates' = WriteThrough(bm25_candidates, scored)
          /\ bi_encoder_candidates' = WriteThrough(bi_encoder_candidates, scored)
          /\ merged' = WriteThrough(merged, scored)
          /\ colbert_candidates' = WriteThrough(colbert_candidates, scored)
          /\ result' = PipelineResult(scored, all_metrics)
    /\ pc' = NextPosition(pc)
    /\ UNCHANGED <<limit, filters, config, all_metrics, raised, stages_run, faults>>
    /\ UNCHANGED <<cls, mrg, deadline_at, call, engine, utilVars>>

ClsIdle == [called |-> FALSE]
MrgIdle == [called |-> FALSE]
CallIdle == [called |-> FALSE]
EngineIdle == [constructed |-> FALSE]
RunsIdle == [started |-> FALSE]
RetryIdle == [called |-> FALSE]
BreakerIdle == [constructed |-> FALSE]
LimiterIdle == [constructed |-> FALSE]

\* nothing of the concurrent or utility models is in use
UtilIdle ==
    /\ runs = RunsIdle
    /\ retry = RetryIdle
    /\ breaker = BreakerIdle
    /\ limiter = LimiterIdle

\* a run about to start, whatever the caller's deadline
InitRun ==
    /\ pc = "stage1"
    /\ limit \in 0..MaxLimit
    /\ filters \in BOOLEAN
    /\ config \in [colbert_enabled : BOOLEAN, cross_enabled : BOOLEAN,
                   cross_model : BOOLEAN, top_k : {DefaultTopK}]
    /\ bm25_candidates = << >>
    /\ bi_encoder_candidates = << >>
    /\ merged = << >>
    /\ colbert_candidates = << >>
    /\ final_candidates = << >>
    /\ all_metrics = << >>
    /\ result = NoResult
    /\ raised = NoError
    /\ stages_run = << >>
    /\ faults = {}
    /\ cls = ClsIdle
    /\ mrg = MrgIdle
    /\ call = CallIdle
    /\ engine = EngineIdle
    /\ UtilIdle

Init == InitRun /\ deadline_at = "never"

Next ==
    \/ Stage1BM25
    \/ Stage2BiEncoder
    \/ MergeStep
    \/ Stage3ColBERT
    \/ Stage4CrossEncoder
    \/ Finalize

Spec == Init /\ [][Next]_vars

-----------------------------------------------------------------------------
(* _calculate_confidence called on its own *)

\* settings each pass validate_thresholds (0 <= v <= 1); scores around them
ThresholdGrid == {0, Pct(50), Pct(70), Pct(92), One}
ScoreGrid == {0, Pct(49), Pct(50), Pct(69), Pct(70), Pct(71), Pct(91), Pct(92),
              Pct(93), One}

PipeIdle ==
    /\ pc = "idle"
    /\ limit = 0
    /\ filters = FALSE
    /\ config = [colbert_enabled |-> TRUE, cross_enabled |-> FALSE,
                 cross_model |-> FALSE, top_k |-> DefaultTopK]
    /\ bm25_candidates = << >>
    /\ bi_encoder_candidates = << >>
    /\ merged = << >>
    /\ colbert_candidates = << >>
    /\ final_candidates = << >>
    /\ all_metrics = << >>
    /\ result = NoResult
    /\ raised = NoError
    /\ stages_run = << >>
    /\ faults = {}
    /\ deadline_at = "never"

InitClassify ==
    /\ PipeIdle
    /\ mrg = MrgIdle
    /\ call = CallIdle
    /\ engine = EngineIdle
    /\ UtilIdle
    /\ cls \in [called : {FALSE}, score : ScoreGrid,
                exact_match_threshold : ThresholdGrid,
                partial_match_threshold : ThresholdGrid]

ClassifyCall ==
    /\ ~cls.called
    /\ cls' = [called |-> TRUE, score |-> cls.score,
               exact_match_threshold |-> cls.exact_match_threshold,
               partial_match_threshold |-> cls.partial_match_threshold,
               confidence |-> _calculate_confidence(cls.score,
                                  cls.exact_match_threshold,
                                  cls.partial_match_threshold)]
    /\ UNCHANGED <<pipeVars, mrg, call, engine, utilVars>>

SpecClassify == InitClassify /\ [][ClassifyCall]_vars

-----------------------------------------------------------------------------
(* _merge_candidates called on its own, on lists that may repeat an id *)

\* lists of at most MaxMergeLen candidate objects over Ids, repeats allowed
CandidateLists(stage, scores) ==
    UNION { { [i \in 1..n |->
                 IF stage = BM25_FILTER
                 THEN CandidateIncident(<<stage, i>>, h[i].id, stage, stage, h[i].score, 0)
                 ELSE CandidateIncident(<<stage, i>>, h[i].id, stage, stage, 0, h[i].score)]
              : h \in [1..n -> [id : Ids, score : scores]] }
            : n \in 0..MaxMergeLen }

InitMerge ==
    /\ PipeIdle
    /\ cls = ClsIdle
    /\ call = CallIdle
    /\ engine = EngineIdle
    /\ UtilIdle
    /\ \E a \in CandidateLists(BM25_FILTER, KeywordScores),
          b \in CandidateLists(BI_ENCODER, SemanticScores) :
          mrg = [called |-> FALSE, list1 |-> a, list2 |-> b]

MergeCall ==
    /\ ~mrg.called
    /\ mrg' = [called |-> TRUE, list1 |-> mrg.list1, list2 |-> mrg.list2,
               merged |-> _merge_candidates(mrg.list1, mrg.list2),
               merged_twice |-> _merge_candidates(mrg.list1, mrg.list1),
               merged_once |-> _merge_candidates(mrg.list1, << >>)]
    /\ UNCHANGED <<pipeVars, cls, call, engine, utilVars>>

SpecMerge == InitMerge /\ [][MergeCall]_vars

-----------------------------------------------------------------------------
(* ColBERTStage.score called on its own *)

\* keyword candidates followed by semantic candidates, MaxMergeLen in all
ScoreInputs ==
    { p[1] \o p[2] :
        p \in { q \in CandidateLists(BM25_FILTER, KeywordScores)
                         \X CandidateLists(BI_ENCODER, SemanticScores) :
                  Len(q[1]) + Len(q[2]) <= MaxMergeLen } }

InitColbert ==
    /\ PipeIdle
    /\ cls = ClsIdle
    /\ mrg = MrgIdle
    /\ engine = EngineIdle
    /\ UtilIdle
    /\ \E enabled \in BOOLEAN, candidates \in ScoreInputs, lim \in 0..MaxLimit :
          call = [called |-> FALSE, op |-> "score", enabled |-> enabled,
                  candidates |-> candidates, limit |-> lim]

\* await ColBERTStage(enabled=...).score(query, candidates, limit)
ColbertCall ==
    /\ ~call.called
    /\ call.op = "score"
    /\ \E similarity \in [{call.candidates[i].incident_id : i \in 1..Len(call.candidates)}
                               -> DetailScores] :
          LET r == ColBERTScore(call.enabled, call.candidates, similarity, call.limit)
          IN call' = [called |-> TRUE, op |-> "score", enabled |-> call.enabled,
                      candidates |-> call.candidates, limit |-> call.limit,
                      returned |-> r.candidates, metrics |-> r.metrics]
    /\ UNCHANGED <<pipeVars, cls, mrg, engine, utilVars>>

SpecColbert == InitColbert /\ [][ColbertCall]_vars

-----------------------------------------------------------------------------
(* PatternMatchingSettings: construction *)

\* values a deployment may put in the three threshold variables
RawThresholds == {-Pct(10), 0, Pct(50), Pct(70), Pct(92), One, Pct(110)}

\* validate_thresholds, run on each of the three fields by itself
validate_thresholds(v) == 0 <= v /\ v <= One

InitSettings ==
    /\ PipeIdle
    /\ cls = ClsIdle
    /\ mrg = MrgIdle
    /\ engine = EngineIdle
    /\ UtilIdle
    /\ \E e \in RawThresholds, p \in RawThresholds, m \in RawThresholds :
          call = [called |-> FALSE, op |-> "settings",
                  exact_match_threshold |-> e, partial_match_threshold |-> p,
                  min_match_threshold |-> m]

\* PatternMatchingSettings(...): a validator raising fails the construction
ConstructSettings ==
    /\ ~call.called
    /\ call.op = "settings"
    /\ call' = [called |-> TRUE, op |-> "settings",
                exact_match_threshold |-> call.exact_match_threshold,
                partial_match_threshold |-> call.partial_match_threshold,
                min_match_threshold |-> call.min_match_threshold,
                outcome |-> IF /\ validate_thresholds(call.exact_match_threshold)
                               /\ validate_thresholds(call.partial_match_threshold)
                               /\ validate_thresholds(call.min_match_threshold)
                            THEN "constructed" ELSE "ValidationError"]
    /\ UNCHANGED <<pipeVars, cls, mrg, engine, utilVars>>

SpecSettings == InitSettings /\ [][ConstructSettings]_vars

-----------------------------------------------------------------------------
(* PipelineResult: the derived views, beside the classifier *)

\* match lists by their final scores, MaxResults at most
MatchScores == UNION { [1..n -> ScoreGrid] : n \in 0..MaxResults }

\* a PipelineResult whose i-th match has final score scores[i]
ResultOf(scores) ==
    PipelineResult([i \in 1..Len(scores) |->
                       [CandidateIncident(<<"match", i>>, "INC-1", "title", "payload", 0, 0)
                            EXCEPT !.final_score = scores[i]]],
                   << >>)

InitViews ==
    /\ PipeIdle
    /\ cls = ClsIdle
    /\ mrg = MrgIdle
    /\ engine = EngineIdle
    /\ UtilIdle
    /\ \E scores \in MatchScores, e \in ThresholdGrid, p \in ThresholdGrid :
          call = [called |-> FALSE, op |-> "views", scores |-> scores,
                  exact_match_threshold |-> e, partial_match_threshold |-> p]

\* result.exact_matches, result.partial_matches and, for each match, the
\* classifier under the configured thresholds
ViewsCall ==
    /\ ~call.called
    /\ call.op = "views"
    /\ LET r == ResultOf(call.scores)
       IN call' = [called |-> TRUE, op |-> "views", scores |-> call.scores,
                   exact_match_threshold |-> call.exact_match_threshold,
                   partial_match_threshold |-> call.partial_match_threshold,
                   matches |-> r.matches,
                   exact_matches |-> exact_matches(r),
                   partial_matches |-> partial_matches(r),
                   confidence |-> [i \in 1..Len(r.matches) |->
                       _calculate_confidence(r.matches[i].final_score,
                                             call.exact_match_threshold,
                                             call.partial_match_threshold)]]
    /\ UNCHANGED <<pipeVars, cls, mrg, engine, utilVars>>

SpecViews == InitViews /\ [][ViewsCall]_vars

-----------------------------------------------------------------------------
(* ColBERTStage.score, enabled, called on lists around its slice of 50 *)

\* how the detail similarities lie along the input list
SimilarityShapes == {"rising", "falling", "alternating"}

\* the similarity of the candidate at position i of n under a shape
SimilarityAt(shape, i, n) ==
    CASE shape = "rising" -> Pct(20) + i * Pct(1)
      [] shape = "falling" -> Pct(20) + (n - i) * Pct(1)
      [] shape = "alternating" -> IF i % 2 = 0 THEN Pct(93) ELSE Pct(75)

\* n semantic candidates with distinct ids, in descending bi_encoder_score
LongList(n) ==
    [i \in 1..n |-> CandidateIncident(<<BI_ENCODER, i>>, ToString(i),
                                      "incidents_summary", "incidents_summary",
                                      0, Pct(95) - i * Pct(1))]

\* similarity[id] for the ids of LongList(n)
LongSimilarity(shape, n) ==
    [id \in {ToString(i) : i \in 1..n} |->
        SimilarityAt(shape, CHOOSE i \in 1..n : ToString(i) = id, n)]

InitColbertLong ==
    /\ PipeIdle
    /\ cls = ClsIdle
    /\ mrg = MrgIdle
    /\ engine = EngineIdle
    /\ UtilIdle
    /\ \E n \in (ColbertSlice - 2)..(ColbertSlice + MaxBeyondSlice),
          lim \in (0..MaxLimit) \cup {ColbertLimit, ColbertSlice + MaxBeyondSlice},
          shape \in SimilarityShapes :
          call = [called |-> FALSE, op |-> "score_long", shape |-> shape,
                  candidates |-> LongList(n), limit |-> lim]

\* await ColBERTStage(enabled=True).score(query, candidates, limit)
ColbertLongCall ==
    /\ ~call.called
    /\ call.op = "score_long"
    /\ LET similarity == LongSimilarity(call.shape, Len(call.candidates))
           r == ColBERTScore(TRUE, call.candidates, similarity, call.limit)
       IN call' = [called |-> TRUE, op |-> "score_long", shape |-> call.shape,
                   candidates |-> call.candidates, limit |-> call.limit,
                   similarity |-> similarity,
                   after |-> WriteThrough(call.candidates, r.written),
                   returned |-> r.candidates, metrics |-> r.metrics]
    /\ UNCHANGED <<pipeVars, cls, mrg, engine, utilVars>>

SpecColbertLong == InitColbertLong /\ [][ColbertLongCall]_vars

-----------------------------------------------------------------------------
(* CrossEncoderStage.rerank called on its own *)

\* lists as a disabled late-interaction stage hands them on
RerankInputs == { ColBERTScore(FALSE, l, << >>, 0).candidates : l \in ScoreInputs }

InitRerank ==
    /\ PipeIdle
    /\ cls = ClsIdle
    /\ mrg = MrgIdle
    /\ engine = EngineIdle
    /\ UtilIdle
    /\ \E enabled \in BOOLEAN, model \in BOOLEAN, top_k \in 1..MaxTopK,
          candidates \in RerankInputs, lim \in 0..MaxLimit :
          call = [called |-> FALSE, op |-> "rerank", enabled |-> enabled,
                  model |-> model, top_k |-> top_k,
                  candidates |-> candidates, limit |-> lim]

\* await CrossEncoderStage(model, enabled, top_k).rerank(query, candidates,
\* limit); after: the objects of the list passed in, as the call left them
RerankCall ==
    /\ ~call.called
    /\ call.op = "rerank"
    /\ LET r == CrossEncoderRerank(call.enabled, call.model, call.top_k,
                                   call.candidates, call.limit)
       IN call' = [called |-> TRUE, op |-> "rerank", enabled |-> call.enabled,
                   model |-> call.model, top_k |-> call.top_k,
                   candidates |-> call.candidates, limit |-> call.limit,
                   after |-> WriteThrough(call.candidates, r.written),
                   returned |-> r.candidates, metrics |-> r.metrics]
    /\ UNCHANGED <<pipeVars, cls, mrg, engine, utilVars>>

SpecRerank == InitRerank /\ [][RerankCall]_vars

-----------------------------------------------------------------------------
(* _calculate_final_score and _explain_match called on their own *)

StageScoreFields == {"bm25_score", "bi_encoder_score", "colbert_score",
                     "cross_encoder_score"}

\* a candidate with the four stage scores given
Scored(bm25, bi, colbert, cross) ==
    [CandidateIncident(<<"direct", 1>>, "INC-1", "title", "payload", bm25, bi)
        EXCEPT !.colbert_score = colbert, !.cross_encoder_score = cross]

\* stage scores: a cosine similarity may be negative; 1 is the unit 1e-7
MonotoneGrid == {-Pct(50), 0, 1, Pct(70), One}

InitFinalScore ==
    /\ PipeIdle
    /\ cls = ClsIdle
    /\ mrg = MrgIdle
    /\ engine = EngineIdle
    /\ UtilIdle
    /\ \E b \in MonotoneGrid, s \in MonotoneGrid, c \in MonotoneGrid,
          x \in MonotoneGrid, field \in StageScoreFields, larger \in MonotoneGrid :
          /\ larger > Scored(b, s, c, x)[field]
          /\ call = [called |-> FALSE, op |-> "final_score", field |-> field,
                     first |-> Scored(b, s, c, x),
                     second |-> [Scored(b, s, c, x) EXCEPT ![field] = larger]]

\* self._calculate_final_score on each of the two candidates
FinalScoreCall ==
    /\ ~call.called
    /\ call.op = "final_score"
    /\ call' = [called |-> TRUE, op |-> "final_score", field |-> call.field,
                first |-> call.first, second |-> call.second,
                first_score |-> _calculate_final_score(call.first),
                second_score |-> _calculate_final_score(call.second)]
    /\ UNCHANGED <<pipeVars, cls, mrg, engine, utilVars>>

SpecFinalScore == InitFinalScore /\ [][FinalScoreCall]_vars

\* stage scores at and next to the tests of _explain_match
ReasonGrid == {Pct(80), Pct(81), Pct(90), Pct(91)}

InitExplain ==
    /\ PipeIdle
    /\ cls = ClsIdle
    /\ mrg = MrgIdle
    /\ engine = EngineIdle
    /\ UtilIdle
    /\ \E b \in ReasonGrid, s \in ReasonGrid, c \in ReasonGrid, x \in ReasonGrid :
          call = [called |-> FALSE, op |-> "explain", candidate |-> Scored(b, s, c, x)]

\* self._explain_match(candidate, query), called twice on the same candidate
ExplainCall ==
    /\ ~call.called
    /\ call.op = "explain"
    /\ call' = [called |-> TRUE, op |-> "explain", candidate |-> call.candidate,
                reasons |-> _explain_match(call.candidate),
                reasons_again |-> _explain_match(call.candidate)]
    /\ UNCHANGED <<pipeVars, cls, mrg, engine, utilVars>>

SpecExplain == InitExplain /\ [][ExplainCall]_vars

-----------------------------------------------------------------------------
(* two search coroutines on one HybridRetrievalPipeline instance *)

RunIds == {1, 2}

\* what the indexes and the embeddings answer one run with
KeywordAnswers == {<< >>, <<[id |-> "INC-1", score |-> Pct(90)]>>}
SemanticAnswers ==
    {<<[id |-> "INC-1", score |-> Pct(80)]>>,
     <<[id |-> "INC-2", score |-> Pct(95)], [id |-> "INC-1", score |-> Pct(80)]>>}
SimilarityAnswers ==
    {[i \in Ids |-> Pct(75)], [i \in Ids |-> IF i = "INC-1" THEN Pct(93) ELSE Pct(75)]}

\* Own with a seeded fault: a stage hands every caller the same objects
OwnShared(run, list) == list

\* the candidates a stage call made for coroutine run constructs: each call
\* of CandidateIncident(...) is a new object, so identities carry the run
Own(run, list) ==
    [i \in 1..Len(list) |-> [list[i] EXCEPT !.obj = <<run>> \o @]]

\* the heap after in-place writes left the objects as in written: every
\* list of every coroutine that holds one of them sees it
WriteAll(rs, written) ==
    [r \in RunIds |->
        [rs[r] EXCEPT
            !.bm25_candidates = WriteThrough(@, written),
            !.bi_encoder_candidates = WriteThrough(@, written),
            !.merged = WriteThrough(@, written),
            !.colbert_candidates = WriteThrough(@, written),
            !.final_candidates = WriteThrough(@, written),
            !.result = IF @.returned
                       THEN [@ EXCEPT !.matches = WriteThrough(@, written)]
                       ELSE @]]

\* the fields the four stage objects are constructed with; no stage method
\* assigns to self
InitRuns ==
    /\ PipeIdle
    /\ cls = ClsIdle
    /\ mrg = MrgIdle
    /\ call = CallIdle
    /\ engine = EngineIdle
    /\ retry = RetryIdle
    /\ breaker = BreakerIdle
    /\ limiter = LimiterIdle
    /\ \E components \in [colbert_enabled : BOOLEAN, cross_enabled : BOOLEAN,
                           cross_model : BOOLEAN, top_k : {DefaultTopK}],
          lims \in [RunIds -> 1..MaxLimit],
          answers \in [RunIds -> [bm25 : KeywordAnswers, bi : SemanticAnswers,
                                  similarity : SimilarityAnswers]] :
          runs = [started |-> TRUE, components |-> components,
                  run |-> [r \in RunIds |->
                      [pc |-> "stage1", limit |-> lims[r], answers |-> answers[r],
                       bm25_candidates |-> << >>, bi_encoder_candidates |-> << >>,
                       merged |-> << >>, colbert_candidates |-> << >>,
                       final_candidates |-> << >>, all_metrics |-> << >>,
                       result |-> NoResult]]]

\* a coroutine runs from one await of search to the next; the awaits inside
\* a stage method touch only objects that call holds
ConcStage1 ==
    \E r \in RunIds :
        /\ runs.run[r].pc = "stage1"
        /\ LET res == BM25Search(runs.run[r].answers.bm25)
           IN runs' = [runs EXCEPT !.run[r] =
                         [@ EXCEPT !.bm25_candidates = Own(r, res.candidates),
                                   !.all_metrics = Append(@, res.metrics),
                                   !.pc = NextPosition("stage1")]]
        /\ UNCHANGED <<pipeVars, cls, mrg, call, engine, retry, breaker, limiter>>

ConcStage2 ==
    \E r \in RunIds :
        /\ runs.run[r].pc = "stage2"
        /\ LET res == BiEncoderSearch(runs.run[r].answers.bi)
           IN runs' = [runs EXCEPT !.run[r] =
                         [@ EXCEPT !.bi_encoder_candidates = Own(r, res.candidates),
                                   !.all_metrics = Append(@, res.metrics),
                                   !.pc = NextPosition("stage2")]]
        /\ UNCHANGED <<pipeVars, cls, mrg, call, engine, retry, breaker, limiter>>

ConcMerge ==
    \E r \in RunIds :
        /\ runs.run[r].pc = "merge"
        /\ runs' = [runs EXCEPT !.run[r] =
                      [@ EXCEPT !.merged = _merge_candidates(
                                              runs.run[r].bm25_candidates,
                                              runs.run[r].bi_encoder_candidates),
                                !.pc = NextPosition("merge")]]
        /\ UNCHANGED <<pipeVars, cls, mrg, call, engine, retry, breaker, limiter>>

ConcStage3 ==
    \E r \in RunIds :
        /\ runs.run[r].pc = "stage3"
        /\ LET res == ColBERTScore(runs.components.colbert_enabled, runs.run[r].merged,
                                   runs.run[r].answers.similarity, ColbertLimit)
               heap == WriteAll(runs.run, res.written)
           IN runs' = [runs EXCEPT !.run =
                         [heap EXCEPT ![r] =
                             [@ EXCEPT !.colbert_candidates = res.candidates,
                                       !.all_metrics = Append(@, res.metrics),
                                       !.pc = NextPosition("stage3")]]]
        /\ UNCHANGED <<pipeVars, cls, mrg, call, engine, retry, breaker, limiter>>

ConcStage4 ==
    \E r \in RunIds :
        /\ runs.run[r].pc = "stage4"
        /\ LET res == CrossEncoderRerank(runs.components.cross_enabled,
                                         runs.components.cross_model,
                                         runs.components.top_k,
                                         runs.run[r].colbert_candidates,
                                         runs.run[r].limit)
               heap == WriteAll(runs.run, res.written)
           IN runs' = [runs EXCEPT !.run =
                         [heap EXCEPT ![r] =
                             [@ EXCEPT !.final_candidates = res.candidates,
                                       !.all_metrics = Append(@, res.metrics),
                                       !.pc = NextPosition("stage4")]]]
        /\ UNCHANGED <<pipeVars, cls, mrg, call, engine, retry, breaker, limiter>>

ConcFinalize ==
    \E r \in RunIds :
        /\ runs.run[r].pc = "final"
        /\ LET scored == [i \in 1..Len(runs.run[r].final_candidates) |->
                             FinalScoring(runs.run[r].final_candidates[i])]
               heap == WriteAll(runs.run, scored)
           IN runs' = [runs EXCEPT !.run =
                         [heap EXCEPT ![r] =
                             [@ EXCEPT !.final_candidates = scored,
                                       !.result = PipelineResult(scored,
                                                                 runs.run[r].all_metrics),
                                       !.pc = NextPosition("final")]]]
        /\ UNCHANGED <<pipeVars, cls, mrg, call, engine, retry, breaker, limiter>>

NextRuns ==
    ConcStage1 \/ ConcStage2 \/ ConcMerge \/ ConcStage3 \/ ConcStage4 \/ ConcFinalize

SpecRuns == InitRuns /\ [][NextRuns]_vars

\* what search returns for coroutine run when nothing else runs
SearchAlone(components, lim, answers, run) ==
    LET s1 == BM25Search(answers.bm25)
        s2 == BiEncoderSearch(answers.bi)
        m == _merge_candidates(Own(run, s1.candidates), Own(run, s2.candidates))
        s3 == ColBERTScore(components.colbert_enabled, m, answers.similarity, ColbertLimit)
        s4 == CrossEncoderRerank(components.cross_enabled, components.cross_model,
                                 components.top_k, s3.candidates, lim)
    IN PipelineResult([i \in 1..Len(s4.candidates) |-> FinalScoring(s4.candidates[i])],
                      <<s1.metrics, s2.metrics, s3.metrics, s4.metrics>>)

-----------------------------------------------------------------------------
(* async_retry: one call of the wrapper *)

RECURSIVE Pow(_, _)
\* b ** k for k >= 0
Pow(b, k) == IF k = 0 THEN 1 ELSE b * Pow(b, k - 1)

\* exceptions in the wrapper's exceptions tuple, and one that is not
ListedErrors == {"TimeoutError", "ConnectionError"}
UnlistedErrors == {"ValueError"}

\* SleepsAfter with a seeded fault: the wrapper sleeps after every failure
SleepsAfterAlways(attempt, max_attempts) == TRUE

\* the test `attempt < max_attempts - 1` that guards the sleep
SleepsAfter(attempt, max_attempts) == attempt < max_attempts - 1

\* the for loop moves on: the next value of range(max_attempts), or the
\* raise last_exception behind the loop
LoopOn(r) ==
    [r EXCEPT !.attempt = @ + 1,
              !.pc = IF r.attempt + 1 < r.max_attempts THEN "attempt" ELSE "raised",
              !.raised = IF r.attempt + 1 < r.max_attempts THEN @ ELSE r.last_exception]

InitRetry ==
    /\ PipeIdle
    /\ cls = ClsIdle
    /\ mrg = MrgIdle
    /\ call = CallIdle
    /\ engine = EngineIdle
    /\ runs = RunsIdle
    /\ breaker = BreakerIdle
    /\ limiter = LimiterIdle
    /\ \E n \in 1..MaxAttempts, delay \in {1, 2}, backoff \in {2, 3} :
          retry = [called |-> TRUE, max_attempts |-> n, delay |-> delay,
                   backoff |-> backoff, pc |-> "attempt", attempt |-> 0,
                   outcomes |-> << >>, sleeps |-> << >>, last_exception |-> "None",
                   result |-> "None", raised |-> "None"]

\* return await func(*args, **kwargs), with every way it can end
Attempt ==
    /\ retry.called
    /\ retry.pc = "attempt"
    /\ \/ retry' = [retry EXCEPT !.outcomes = Append(@, "ok"),
                                 !.result = <<"value", retry.attempt>>,
                                 !.pc = "returned"]
       \/ \E e \in ListedErrors :
             LET caught == [retry EXCEPT !.outcomes = Append(@, e),
                                         !.last_exception = e]
             IN retry' = IF SleepsAfter(retry.attempt, retry.max_attempts)
                         THEN [caught EXCEPT !.pc = "sleep"]
                         ELSE LoopOn(caught)
       \/ \E e \in UnlistedErrors :
             retry' = [retry EXCEPT !.outcomes = Append(@, e),
                                    !.raised = e,
                                    !.pc = "raised"]
    /\ UNCHANGED <<pipeVars, cls, mrg, call, engine, runs, breaker, limiter>>

\* await asyncio.sleep(delay * (backoff ** attempt))
Sleep ==
    /\ retry.called
    /\ retry.pc = "sleep"
    /\ retry' = LoopOn([retry EXCEPT !.sleeps =
                    Append(@, retry.delay * Pow(retry.backoff, retry.attempt))])
    /\ UNCHANGED <<pipeVars, cls, mrg, call, engine, runs, breaker, limiter>>

NextRetry == Attempt \/ Sleep

\* the event loop resumes the coroutine when an attempt or a sleep ends
SpecRetry == InitRetry /\ [][NextRetry]_vars /\ WF_vars(NextRetry)

-----------------------------------------------------------------------------
(* CircuitBreaker: coroutines entering and leaving `async with breaker` *)

CLOSED == "closed"
OPEN == "open"
HALF_OPEN == "half_open"

Callers == {"a", "b", "c"}

\* the state property with a seeded fault: an open breaker always moves on
StatePropertyEager(b) ==
    IF b._state = OPEN
    THEN [b EXCEPT !._state = HALF_OPEN, !._half_open_calls = 0]
    ELSE b

\* the state property: the breaker after the read, which moves an OPEN
\* breaker to HALF_OPEN once reset_timeout has passed since the last failure
StateProperty(b) ==
    IF b._state = OPEN /\ b.now - b._last_failure_time >= b.reset_timeout
    THEN [b EXCEPT !._state = HALF_OPEN, !._half_open_calls = 0]
    ELSE b

\* a caller outside the breaker, with how its last attempt ended
Outside(last) == [pc |-> "outside", admitted_in |-> "none", last |-> last]

\* a new breaker, its field defaults, no caller inside. streak and
\* period_admitted are history: failures recorded since the last recorded
\* success, admissions since the breaker last became HALF_OPEN
InitBreaker ==
    /\ PipeIdle
    /\ cls = ClsIdle
    /\ mrg = MrgIdle
    /\ call = CallIdle
    /\ engine = EngineIdle
    /\ runs = RunsIdle
    /\ retry = RetryIdle
    /\ limiter = LimiterIdle
    /\ \E failure_threshold \in {1, 2}, reset_timeout \in {1, 2},
          half_open_max_calls \in {1, 2} :
          breaker = [constructed |-> TRUE,
                     failure_threshold |-> failure_threshold,
                     reset_timeout |-> reset_timeout,
                     half_open_max_calls |-> half_open_max_calls,
                     _state |-> CLOSED, _failure_count |-> 0,
                     _last_failure_time |-> 0, _half_open_calls |-> 0,
                     now |-> 0,
                     callers |-> [c \in Callers |-> Outside("none")],
                     streak |-> 0, period_admitted |-> 0]

\* __aenter__: under the lock, with no await inside
Enter ==
    \E c \in Callers :
        /\ breaker.constructed
        /\ breaker.callers[c].pc = "outside"
        /\ LET b == StateProperty(breaker)
               moved == breaker._state = OPEN /\ b._state = HALF_OPEN
               period == IF moved THEN 0 ELSE breaker.period_admitted
           IN breaker' =
                IF b._state = OPEN
                THEN [b EXCEPT !.callers[c] = Outside("ServiceUnavailableError")]
                ELSE IF b._state = HALF_OPEN
                THEN IF b._half_open_calls >= b.half_open_max_calls
                     THEN [b EXCEPT !.callers[c] = Outside("ServiceUnavailableError"),
                                    !.period_admitted = period]
                     ELSE [b EXCEPT !._half_open_calls = @ + 1,
                                    !.callers[c] = [pc |-> "inside",
                                                    admitted_in |-> HALF_OPEN,
                                                    last |-> "none"],
                                    !.period_admitted = period + 1]
                ELSE [b EXCEPT !.callers[c] = [pc |-> "inside", admitted_in |-> CLOSED,
                                               last |-> "none"]]
        /\ UNCHANGED <<pipeVars, cls, mrg, call, engine, runs, retry, limiter>>

\* __aexit__ with exc_type None: _on_success
ExitSuccess ==
    \E c \in Callers :
        /\ breaker.constructed
        /\ breaker.callers[c].pc = "inside"
        /\ breaker' = [breaker EXCEPT !._failure_count = 0,
                                      !._state = CLOSED,
                                      !.callers[c] = Outside("returned"),
                                      !.streak = 0]
        /\ UNCHANGED <<pipeVars, cls, mrg, call, engine, runs, retry, limiter>>

\* __aexit__ with an exception: _on_failure
ExitFailure ==
    \E c \in Callers :
        /\ breaker.constructed
        /\ breaker.callers[c].pc = "inside"
        /\ breaker' = [breaker EXCEPT
                          !._failure_count = @ + 1,
                          !._last_failure_time = breaker.now,
                          !._state = IF breaker._failure_count + 1
                                          >= breaker.failure_threshold
                                     THEN OPEN ELSE @,
                          !.callers[c] = Outside("raised"),
                          !.streak = @ + 1]
        /\ UNCHANGED <<pipeVars, cls, mrg, call, engine, runs, retry, limiter>>

\* time.time() moves on
BreakerTick ==
    /\ breaker.constructed
    /\ breaker.now < MaxClock
    /\ breaker' = [breaker EXCEPT !.now = @ + 1]
    /\ UNCHANGED <<pipeVars, cls, mrg, call, engine, runs, retry, limiter>>

NextBreaker == Enter \/ ExitSuccess \/ ExitFailure \/ BreakerTick

SpecBreaker == InitBreaker /\ [][NextBreaker]_vars

-----------------------------------------------------------------------------
(* RateLimiter: concurrent is_allowed calls *)

Keys == {"user-1", "user-2"}

\* the timestamps a bucket keeps at time now: those with now - ts < window
Pruned(bucket, now, window) == SelectSeq(bucket, LAMBDA ts : now - ts < window)

\* AtLimit with a seeded fault: > in place of >=
AtLimitLate(n, max_requests) == n > max_requests

\* the test `len(self._buckets[key]) >= self.max_requests`
AtLimit(n, max_requests) == n >= max_requests

RECURSIVE SumOver(_, _)
\* the sum of f over the set S
SumOver(f, S) ==
    IF S = {} THEN 0
    ELSE LET x == CHOOSE y \in S : TRUE IN f[x] + SumOver(f, S \ {x})

\* how many of the timestamps counted in given lie in (t - window, t]
InWindow(given, t, window) ==
    SumOver(given, {ts \in DOMAIN given : t - window < ts /\ ts <= t})

\* a new limiter. A key without a bucket and a key with an empty bucket
\* answer alike, so every key starts with an empty one. granted and last
\* are history: per key and timestamp the calls that returned True, and the
\* last call with the count of granted calls its window held before it
InitLimiter ==
    /\ PipeIdle
    /\ cls = ClsIdle
    /\ mrg = MrgIdle
    /\ call = CallIdle
    /\ engine = EngineIdle
    /\ runs = RunsIdle
    /\ retry = RetryIdle
    /\ breaker = BreakerIdle
    /\ \E max_requests \in {1, 2}, window_seconds \in {1, 2, 3} :
          limiter = [constructed |-> TRUE, max_requests |-> max_requests,
                     window_seconds |-> window_seconds,
                     _buckets |-> [k \in Keys |-> << >>],
                     now |-> 0,
                     granted |-> [k \in Keys |-> [ts \in 0..MaxClock |-> 0]],
                     last |-> [called |-> FALSE]]

\* is_allowed(key): the whole body runs under the lock with no await
IsAllowed ==
    \E key \in Keys :
        /\ limiter.constructed
        /\ LET now == limiter.now
               kept == Pruned(limiter._buckets[key], now, limiter.window_seconds)
               seen == InWindow(limiter.granted[key], now, limiter.window_seconds)
           IN limiter' =
                IF AtLimit(Len(kept), limiter.max_requests)
                THEN [limiter EXCEPT
                        !._buckets[key] = kept,
                        !.last = [called |-> TRUE, key |-> key, at |-> now,
                                  seen |-> seen, allowed |-> FALSE]]
                ELSE [limiter EXCEPT
                        !._buckets[key] = Append(kept, now),
                        !.granted[key][now] = @ + 1,
                        !.last = [called |-> TRUE, key |-> key, at |-> now,
                                  seen |-> seen, allowed |-> TRUE]]
        /\ UNCHANGED <<pipeVars, cls, mrg, call, engine, runs, retry, breaker>>

\* time.time() moves on
LimiterTick ==
    /\ limiter.constructed
    /\ limiter.now < MaxClock
    /\ limiter' = [limiter EXCEPT !.now = @ + 1]
    /\ UNCHANGED <<pipeVars, cls, mrg, call, engine, runs, retry, breaker>>

NextLimiter == IsAllowed \/ LimiterTick

SpecLimiter == InitLimiter /\ [][NextLimiter]_vars

-----------------------------------------------------------------------------
(* search under a caller's deadline *)

\* the stage during which the caller's deadline elapses. search takes no
\* deadline and async_timeout is applied to nothing, so no action reads it
DeadlinePoints == {"never", "stage1", "stage2", "final"}

InitDeadline == InitRun /\ deadline_at \in DeadlinePoints

SpecDeadline == InitDeadline /\ [][Next]_vars

-----------------------------------------------------------------------------
(* EnhancedPatternMatchingEngine: which search answers a call *)

\* the test at the head of find_similar_incidents
Dispatch(use_hybrid_pipeline, pipeline) ==
    IF use_hybrid_pipeline /\ pipeline THEN "_search_with_pipeline"
    ELSE "_search_legacy"

\* after __init__: self.pipeline is None (pipeline = FALSE) whatever the flag
InitEngine ==
    /\ PipeIdle
    /\ cls = ClsIdle
    /\ mrg = MrgIdle
    /\ call = CallIdle
    /\ UtilIdle
    /\ engine \in [constructed : {TRUE}, use_hybrid_pipeline : BOOLEAN,
                    pipeline : {FALSE}, answered : {<< >>}]

\* find_similar_incidents(query, service, limit)
FindSimilarIncidents ==
    /\ Len(engine.answered) < MaxCalls
    /\ \E service \in BOOLEAN :
          engine' = [engine EXCEPT !.answered = Append(@,
                        [by |-> Dispatch(engine.use_hybrid_pipeline, engine.pipeline),
                         service |-> service])]
    /\ UNCHANGED <<pipeVars, cls, mrg, call, utilVars>>

\* _init_pipeline, which no code of the repository calls, called from outside
InitPipelineCall ==
    /\ engine' = [engine EXCEPT !.pipeline = TRUE]
    /\ UNCHANGED <<pipeVars, cls, mrg, call, utilVars>>

NextEngine == FindSimilarIncidents \/ InitPipelineCall

SpecEngine == InitEngine /\ [][NextEngine]_vars

-----------------------------------------------------------------------------
(* Properties *)

Done == pc = "done"

\* C1: for thresholds with partial <= exact, _calculate_confidence returns
\* EXACT iff score >= exact, PARTIAL iff partial <= score < exact, NONE iff
\* score < partial: exactly one tier for every score.
C1_ClassifierPartitions ==
    (cls.called /\ cls.partial_match_threshold <= cls.exact_match_threshold) =>
        /\ cls.confidence \in {"EXACT", "PARTIAL", "NONE"}
        /\ cls.confidence = "EXACT" <=> cls.score >= cls.exact_match_threshold
        /\ cls.confidence = "PARTIAL" <=>
              (cls.partial_match_threshold <= cls.score
               /\ cls.score < cls.exact_match_threshold)
        /\ cls.confidence = "NONE" <=> cls.score < cls.partial_match_threshold

C1_Witness ==
    /\ cls.called
    /\ cls.partial_match_threshold < cls.exact_match_threshold
    /\ cls.score = cls.exact_match_threshold
    /\ cls.confidence = "EXACT"

\* the objects of one list, as a set
ObjectsOf(list) == {list[i] : i \in 1..Len(list)}
AllCandidates ==
    ObjectsOf(bm25_candidates) \cup ObjectsOf(bi_encoder_candidates)
        \cup ObjectsOf(merged) \cup ObjectsOf(colbert_candidates)
        \cup ObjectsOf(final_candidates)

\* C2: when search returns, every match's final_score is 0.10*keyword +
\* 0.25*semantic + 0.40*late-interaction + 0.25*rerank of its own stage
\* scores as they stand, written exactly once, and no candidate's
\* final_score is written before the last stage has returned.
C2_FinalScoreWeightedSumOnce ==
    /\ Done => \A i \in 1..Len(result.matches) :
                 LET m == result.matches[i]
                 IN /\ 100 * m.final_score =
                          10 * m.bm25_score + 25 * m.bi_encoder_score
                            + 40 * m.colbert_score + 25 * m.cross_encoder_score
                    /\ m.final_writes = 1
    /\ ~Done => \A c \in AllCandidates : c.final_writes = 0

C2_Witness ==
    /\ Done
    /\ \E i \in 1..Len(result.matches) :
          /\ result.matches[i].bi_encoder_score > 0
          /\ result.matches[i].colbert_score > result.matches[i].bi_encoder_score
          /\ result.matches[i].cross_encoder_score > 0
    /\ \E i \in 1..Len(result.matches) : result.matches[i].bm25_score > 0

\* C3 (as claimed): once the two filter outputs are merged, an incident_id
\* both stages returned is held once, with the keyword stage's keyword score
\* and the semantic stage's semantic score, title and payload of the
\* keyword-stage occurrence.
C3_MergedCarriesBothScores ==
    pc = "stage3" =>
        \A i \in 1..Len(bm25_candidates), j \in 1..Len(bi_encoder_candidates) :
            bm25_candidates[i].incident_id = bi_encoder_candidates[j].incident_id =>
                \E k \in 1..Len(merged) :
                    /\ merged[k].incident_id = bm25_candidates[i].incident_id
                    /\ \A k2 \in 1..Len(merged) :
                          merged[k2].incident_id = merged[k].incident_id => k2 = k
                    /\ merged[k].bm25_score = bm25_candidates[i].bm25_score
                    /\ merged[k].bi_encoder_score =
                          bi_encoder_candidates[j].bi_encoder_score
                    /\ merged[k].title = bm25_candidates[i].title
                    /\ merged[k].payload = bm25_candidates[i].payload

\* C4: _merge_candidates(A, B) holds each incident_id at most once, also
\* when A or B repeat an id, and merging A with A gives the ids of merging A
\* with the empty list.
C4_MergeIdempotentOnIds ==
    mrg.called =>
        /\ Distinct(IdsOf(mrg.merged))
        /\ Distinct(IdsOf(mrg.merged_twice))
        /\ IdsOf(mrg.merged_twice) = IdsOf(mrg.merged_once)

C4_Witness ==
    /\ mrg.called
    /\ ~Distinct(IdsOf(mrg.list1))
    /\ \E i \in 1..Len(mrg.list1), j \in 1..Len(mrg.list2) :
          mrg.list1[i].incident_id = mrg.list2[j].incident_id
    /\ Len(mrg.merged) = 1

\* C5 (as claimed): the matches of every returned PipelineResult are in
\* non-increasing final_score order, equal scores in the order the earlier
\* stages delivered them (their order in the re-rank stage's input).
C5_MatchesSortedByFinalScore ==
    Done =>
        \A i, j \in 1..Len(result.matches) : i < j =>
            /\ result.matches[i].final_score >= result.matches[j].final_score
            /\ result.matches[i].final_score = result.matches[j].final_score =>
                 \E a, b \in 1..Len(colbert_candidates) :
                    /\ a < b
                    /\ colbert_candidates[a].obj = result.matches[i].obj
                    /\ colbert_candidates[b].obj = result.matches[j].obj

\* the inputs of the worked scenario: keyword stage INC-1 0.6; semantic stage
\* INC-1 0.95, INC-2 0.80; late interaction on, INC-1 0.93, INC-2 0.75;
\* re-rank off
ScenarioRun ==
    /\ Done
    /\ limit = 2
    /\ config.colbert_enabled /\ ~config.cross_enabled
    /\ Len(bm25_candidates) = 1
    /\ bm25_candidates[1].incident_id = "INC-1"
    /\ bm25_candidates[1].bm25_score = Pct(60)
    /\ Len(bi_encoder_candidates) = 2
    /\ bi_encoder_candidates[1].incident_id = "INC-1"
    /\ bi_encoder_candidates[1].bi_encoder_score = Pct(95)
    /\ bi_encoder_candidates[2].incident_id = "INC-2"
    /\ bi_encoder_candidates[2].bi_encoder_score = Pct(80)
    /\ \A k \in 1..Len(merged) :
          /\ merged[k].incident_id = "INC-1" => merged[k].colbert_score = Pct(93)
          /\ merged[k].incident_id = "INC-2" => merged[k].colbert_score = Pct(75)

\* C6 (as claimed): the scenario run returns [INC-1, INC-2] from the merged
\* set {INC-1, INC-2}, final_score(INC-1) = 0.8995 classified EXACT and
\* final_score(INC-2) = 0.6375 classified NONE under the default thresholds.
C6_ScenarioScores ==
    ScenarioRun =>
        /\ IdsOf(merged) = <<"INC-1", "INC-2">>
        /\ IdsOf(result.matches) = <<"INC-1", "INC-2">>
        /\ result.matches[1].final_score = 8995000
        /\ result.matches[2].final_score = 6375000
        /\ _calculate_confidence(result.matches[1].final_score,
                                 Pct(ExactDefault), Pct(PartialDefault)) = "EXACT"
        /\ _calculate_confidence(result.matches[2].final_score,
                                 Pct(ExactDefault), Pct(PartialDefault)) = "NONE"

\* C7 (as claimed): when the semantic filter stage fails, the error that ends
\* the run carries the stage metrics collected so far (the keyword stage's
\* record) and no PipelineResult is returned.
C7_SemanticFailureCarriesMetrics ==
    (pc = "failed" /\ raised.stage = BI_ENCODER) =>
        /\ Len(all_metrics) = 1
        /\ all_metrics[1].stage = BM25_FILTER
        /\ raised.stage_metrics = all_metrics
        /\ ~result.returned

\* C8 (as claimed): when the lexical index call fails, the keyword stage
\* raises nothing, returns no candidates and a metrics record with
\* candidates_out = 0, and the run goes on.
C8_KeywordFailureAbsorbed ==
    [stage |-> BM25_FILTER, type |-> "ConnectionError"] \in faults =>
        /\ pc # "failed"
        /\ ~raised.raised
        /\ bm25_candidates = << >>
        /\ Len(all_metrics) >= 1
        /\ all_metrics[1].stage = BM25_FILTER
        /\ all_metrics[1].candidates_out = 0

\* the states of the orchestrator the positions of search stand for
PhaseOf(p) ==
    CASE p = "stage1" -> 0      \* INIT
      [] p = "stage2" -> 1      \* FILTERING
      [] p = "merge" -> 2       \* MERGING
      [] p = "stage3" -> 3      \* SCORING
      [] p = "stage4" -> 4      \* RERANKING
      [] p = "final" -> 5       \* FINALIZING
      [] p = "done" -> 6        \* DONE
      [] p = "failed" -> 7      \* FAILED

StageOrder == <<BM25_FILTER, BI_ENCODER, COLBERT, CROSS_ENCODER>>

\* C9: a run only moves forward, one state at a time, through INIT,
\* FILTERING, MERGING, SCORING, RERANKING, FINALIZING, DONE; the stages run
\* at most once each and in the fixed order; the only other move is to
\* FAILED, taken when a stage raised; nothing runs after DONE or FAILED.
C9_ForwardOnly ==
    [][ /\ pc' # pc => /\ pc \notin {"done", "failed"}
                       /\ \/ PhaseOf(pc') = PhaseOf(pc) + 1
                          \/ pc' = "failed" /\ faults' # faults
        /\ stages_run' # stages_run =>
                       /\ pc \notin {"done", "failed"}
                       /\ Len(stages_run') = Len(stages_run) + 1
                       /\ Len(stages_run') <= Len(StageOrder)
                       /\ stages_run' = SubSeq(StageOrder, 1, Len(stages_run'))
        /\ (raised'.raised /\ ~raised.raised) => pc' = "failed"
      ]_vars

C9_Witness == Done /\ stages_run = StageOrder

\* C10: for every limit >= 0 the matches search returns are at most limit.
C10_AtMostLimit == Done => Len(result.matches) <= limit

C10_Witness ==
    /\ Done
    /\ Len(colbert_candidates) > limit
    /\ limit > 0
    /\ Len(result.matches) = limit

\* C11 (as claimed): on an engine built with use_hybrid_pipeline=True the
\* pipeline is set up by the first find_similar_incidents call, and every
\* call, the first included, is answered by _search_with_pipeline.
C11_HybridAnswersEveryCall ==
    (engine.constructed /\ engine.use_hybrid_pipeline) =>
        /\ Len(engine.answered) >= 1 => engine.pipeline
        /\ \A i \in 1..Len(engine.answered) :
              engine.answered[i].by = "_search_with_pipeline"

\* C12: when each of the four stages hands on an empty candidate list, no
\* error is raised and search returns a PipelineResult whose matches,
\* exact_matches and partial_matches are all empty.
AllStagesEmpty ==
    /\ Len(all_metrics) = 4
    /\ \A i \in 1..4 : all_metrics[i].candidates_out = 0

C12_AllEmptyReturnsEmpty ==
    AllStagesEmpty =>
        /\ ~raised.raised
        /\ pc \in {"final", "done"}
        /\ Done => /\ result.returned
                   /\ result.matches = << >>
                   /\ exact_matches(result) = << >>
                   /\ partial_matches(result) = << >>

C12_Witness == Done /\ AllStagesEmpty /\ result.returned

\* C13 (as claimed): search honours an overall deadline. If it elapses
\* during the keyword filter, the run continues with an empty keyword
\* contribution; if it elapses during the semantic filter or the final
\* scoring step, the run ends with a timeout error, distinct from a stage
\* failure, and returns no PipelineResult.
TimedOut == pc = "failed" /\ raised.raised /\ raised.type = "TimeoutError"

C13_DeadlineHonoured ==
    /\ (deadline_at = "stage1" /\ pc \notin {"stage1", "failed"}) =>
            bm25_candidates = << >>
    /\ (deadline_at = "stage2" /\ pc \notin {"stage1", "stage2"}) =>
            TimedOut /\ ~result.returned
    /\ (deadline_at = "final" /\ pc \notin {"stage1", "stage2", "merge",
                                             "stage3", "stage4", "final"}) =>
            (raised.raised /\ ~result.returned
             /\ (faults = {} => TimedOut))

\* the re-rank stage skips: disabled, or no model configured
RerankSkipped == ~config.cross_enabled \/ ~config.cross_model

\* C14 (as claimed): with the re-rank stage disabled or without a model,
\* every candidate rerank returns has cross_encoder_score equal to its
\* colbert_score.
C14_SkippedRerankCopiesScore ==
    (pc = "final" /\ RerankSkipped) =>
        \A i \in 1..Len(final_candidates) :
            final_candidates[i].cross_encoder_score = final_candidates[i].colbert_score

\* a completed stage 4 that skipped: the slice, and no candidate written
SkippedRerankStep ==
    (pc = "stage4" /\ pc' = "final" /\ RerankSkipped) =>
        /\ final_candidates' = Take(colbert_candidates, limit)
        /\ colbert_candidates' = colbert_candidates

\* C15: with the re-rank stage disabled, rerank returns exactly the first
\* limit candidates of its input, in input order and untouched, and the
\* final matches are the late-interaction order cut to the caller's limit.
C15_SkippedRerankIsPrefix ==
    /\ [][SkippedRerankStep]_vars
    /\ []((Done /\ RerankSkipped) =>
            IdsOf(result.matches) = IdsOf(Take(colbert_candidates, limit)))

C15_Witness ==
    /\ pc = "final"
    /\ RerankSkipped
    /\ limit >= 1
    /\ Len(colbert_candidates) > limit
    /\ Len(final_candidates) = limit

\* C16: with the late-interaction stage disabled, score returns every input
\* candidate in input order, however many the limit allows, each with
\* colbert_score set to its bi_encoder_score and no other field changed.
C16_DisabledScoreIsPassThrough ==
    (call.called /\ call.op = "score" /\ ~call.enabled) =>
        /\ Len(call.returned) = Len(call.candidates)
        /\ \A i \in 1..Len(call.candidates) :
              call.returned[i] =
                  [call.candidates[i] EXCEPT
                      !.colbert_score = call.candidates[i].bi_encoder_score]
        /\ call.metrics.candidates_out = Len(call.candidates)

C16_Witness ==
    /\ call.called /\ call.op = "score" /\ ~call.enabled
    /\ Len(call.candidates) > call.limit
    /\ Len(call.returned) = MaxMergeLen
    /\ \E i \in 1..Len(call.returned) : call.returned[i].colbert_score > 0

\* C17 (as claimed): under any configured thresholds with partial <= exact,
\* exact_matches holds exactly the matches with final_score >= the exact
\* threshold, partial_matches exactly those from the partial threshold up to
\* the exact one, the views are disjoint, and each agrees with the tier
\* _calculate_confidence gives the same candidate.
C17_ViewsFollowConfiguredThresholds ==
    (/\ call.called
     /\ call.op = "views"
     /\ call.partial_match_threshold <= call.exact_match_threshold) =>
        \A i \in 1..Len(call.matches) :
            LET m == call.matches[i]
                inExact == \E k \in 1..Len(call.exact_matches) :
                               call.exact_matches[k].obj = m.obj
                inPartial == \E k \in 1..Len(call.partial_matches) :
                               call.partial_matches[k].obj = m.obj
            IN /\ inExact <=> m.final_score >= call.exact_match_threshold
               /\ inPartial <=> (/\ call.partial_match_threshold <= m.final_score
                                 /\ m.final_score < call.exact_match_threshold)
               /\ ~(inExact /\ inPartial)
               /\ inExact <=> call.confidence[i] = "EXACT"
               /\ inPartial <=> call.confidence[i] = "PARTIAL"

\* C18 (as claimed): constructing the settings fails for any threshold
\* outside [0,1] and for any pair with partial_match_threshold above
\* exact_match_threshold, so constructed settings are in range and ordered.
C18_SettingsRejectBadThresholds ==
    (call.called /\ call.op = "settings") =>
        (call.outcome = "constructed" <=>
            /\ 0 <= call.exact_match_threshold /\ call.exact_match_threshold <= One
            /\ 0 <= call.partial_match_threshold /\ call.partial_match_threshold <= One
            /\ 0 <= call.min_match_threshold /\ call.min_match_threshold <= One
            /\ call.partial_match_threshold <= call.exact_match_threshold)

\* some candidate carries a final score or a reason
Finalized(cands) == \E c \in cands : c.final_score # 0 \/ c.match_reasons # << >>

\* a step after which a candidate is first seen finalized
FinalizingStep == ~Finalized(AllCandidates) /\ Finalized(AllCandidates')

\* C19: no stage writes final_score or match_reasons. Until the final
\* scoring step of search has run every candidate has final_score 0 and no
\* match_reasons, and the one step that sets them is that final step.
C19_OnlyFinalStepFinalizes ==
    /\ [](~Done => \A c \in AllCandidates :
                      c.final_score = 0 /\ c.match_reasons = << >>)
    /\ [][FinalizingStep => (pc = "final" /\ pc' = "done")]_vars

C19_Witness ==
    /\ pc = "final"
    /\ \E i \in 1..Len(final_candidates) :
          /\ final_candidates[i].bi_encoder_score > 0
          /\ final_candidates[i].colbert_score > Pct(90)
          /\ final_candidates[i].cross_encoder_score > 0
          /\ final_candidates[i].final_score = 0
          /\ final_candidates[i].match_reasons = << >>

\* the positions of a list whose incident_id no earlier position carries
FirstSeen(all) ==
    {i \in 1..Len(all) : \A j \in 1..(i - 1) : all[j].incident_id # all[i].incident_id}

\* the k-th smallest member of a set of positions
NthOf(S, k) == CHOOSE i \in S : Cardinality({j \in S : j < i}) = k - 1

\* C20: the merged list is the keyword candidates in their order followed
\* by the semantic candidates whose incident_id was not yet seen, in their
\* order: each candidate stands where its id was first seen, none moved
\* ahead of one first seen earlier.
C20_MergeKeepsFirstSeenOrder ==
    mrg.called =>
        LET all == mrg.list1 \o mrg.list2
            kept == FirstSeen(all)
        IN /\ Len(mrg.merged) = Cardinality(kept)
           /\ \A k \in 1..Len(mrg.merged) : mrg.merged[k] = all[NthOf(kept, k)]
           /\ Distinct(IdsOf(mrg.list1)) =>
                 /\ Len(mrg.merged) >= Len(mrg.list1)
                 /\ SubSeq(mrg.merged, 1, Len(mrg.list1)) = mrg.list1
                 /\ \A k \in (Len(mrg.list1) + 1)..Len(mrg.merged) :
                       mrg.merged[k].obj[1] = BI_ENCODER

C20_Witness ==
    /\ mrg.called
    /\ Len(mrg.list1) = 2 /\ Distinct(IdsOf(mrg.list1))
    /\ Len(mrg.list2) = 2 /\ Distinct(IdsOf(mrg.list2))
    /\ mrg.list2[1].incident_id = mrg.list1[2].incident_id
    /\ Len(mrg.merged) = 3
    /\ mrg.merged[3] = mrg.list2[2]

\* the stage names of a list of metrics records, in list order
StagesOf(metrics) == [i \in 1..Len(metrics) |-> metrics[i].stage]

\* C21: every returned PipelineResult carries exactly one metrics record per
\* stage executed, in execution order (keyword filter, semantic filter,
\* late interaction, re-rank), a disabled stage's pass-through included, and
\* every record has candidates_out <= candidates_in.
C21_OneMetricsRecordPerStage ==
    /\ \A i \in 1..Len(all_metrics) :
          all_metrics[i].candidates_out <= all_metrics[i].candidates_in
    /\ pc # "failed" => StagesOf(all_metrics) = stages_run
    /\ Done => /\ result.returned
               /\ result.metrics = all_metrics
               /\ StagesOf(result.metrics) =
                     <<BM25_FILTER, BI_ENCODER, COLBERT, CROSS_ENCODER>>
               /\ \A i \in 1..Len(result.metrics) :
                     result.metrics[i].candidates_out
                         <= result.metrics[i].candidates_in

C21_Witness ==
    /\ Done
    /\ ~config.colbert_enabled
    /\ RerankSkipped
    /\ Len(result.metrics) = 4
    /\ result.metrics[4].candidates_out < result.metrics[4].candidates_in

\* the identities of the candidate objects reachable from one coroutine
ReachableFrom(run) ==
    {c.obj : c \in ObjectsOf(run.bm25_candidates) \cup ObjectsOf(run.bi_encoder_candidates)
                     \cup ObjectsOf(run.merged) \cup ObjectsOf(run.colbert_candidates)
                     \cup ObjectsOf(run.final_candidates)
                     \cup (IF run.result.returned THEN ObjectsOf(run.result.matches)
                           ELSE {})}

\* no step changes a field of the stage objects
ComponentsKept == runs.started => runs'.components = runs.components

\* C22: two search coroutines on one pipeline, interleaved at the awaits of
\* search, reach no common candidate object, leave the stage objects as
\* constructed, and each returns what it returns alone for the same answers
\* of the indexes.
C22_RunsShareNothing ==
    /\ [][ComponentsKept]_vars
    /\ [](runs.started =>
            /\ ReachableFrom(runs.run[1]) \cap ReachableFrom(runs.run[2]) = {}
            /\ \A r \in RunIds :
                  runs.run[r].pc = "done" =>
                      runs.run[r].result =
                          SearchAlone(runs.components, runs.run[r].limit,
                                      runs.run[r].answers, r))

C22_Witness ==
    /\ runs.started
    /\ runs.run[1].pc = "done"
    /\ runs.run[2].pc = "final"
    /\ \E i \in 1..Len(runs.run[1].result.matches),
          j \in 1..Len(runs.run[2].final_candidates) :
          /\ runs.run[1].result.matches[i].incident_id
                = runs.run[2].final_candidates[j].incident_id
          /\ runs.run[1].result.matches[i].colbert_score
                # runs.run[2].final_candidates[j].colbert_score

\* C23: the weighted final score is monotonic. Of two candidates equal in
\* all four stage scores but one, which is larger in the second, the second's
\* _calculate_final_score is not smaller than the first's.
C23_FinalScoreMonotonic ==
    (call.called /\ call.op = "final_score") =>
        /\ call.second[call.field] > call.first[call.field]
        /\ \A f \in StageScoreFields \ {call.field} : call.second[f] = call.first[f]
        /\ call.second_score >= call.first_score

C23_Witness ==
    /\ call.called /\ call.op = "final_score"
    /\ call.field = "colbert_score"
    /\ call.first.colbert_score < 0
    /\ call.second_score > call.first_score

\* the four reasons in the order _explain_match tests them, with the field
\* and the strong-signal threshold of each
ReasonTable ==
    <<[field |-> "bm25_score", above |-> Pct(80), reason |-> "Strong keyword match"],
      [field |-> "bi_encoder_score", above |-> Pct(90), reason |-> "High semantic similarity"],
      [field |-> "colbert_score", above |-> Pct(90), reason |-> "Token-level precision match"],
      [field |-> "cross_encoder_score", above |-> Pct(90), reason |-> "Cross-encoder verified"]>>

\* the reasons of ReasonTable whose score in c is strictly above, in order
StrongReasons(c) ==
    LET strong == SelectSeq(ReasonTable, LAMBDA t : c[t.field] > t.above)
    IN [i \in 1..Len(strong) |-> strong[i].reason]

\* C26: match_reasons is the subsequence of the keyword, semantic,
\* late-interaction and re-rank reasons, in that order, of exactly the
\* stages whose score is strictly above 0.8 (keyword) or 0.9 (the others);
\* a score equal to its threshold gives no reason, and the same scores
\* give the same list.
C26_ReasonsFollowStrongSignals ==
    (call.called /\ call.op = "explain") =>
        /\ call.reasons = StrongReasons(call.candidate)
        /\ call.reasons_again = call.reasons
        /\ call.candidate.bm25_score = Pct(80) =>
              \A i \in 1..Len(call.reasons) : call.reasons[i] # "Strong keyword match"
        /\ call.candidate.colbert_score = Pct(90) =>
              \A i \in 1..Len(call.reasons) : call.reasons[i] # "Token-level precision match"

C26_Witness ==
    /\ call.called /\ call.op = "explain"
    /\ call.candidate.bm25_score = Pct(80)
    /\ call.candidate.bi_encoder_score = Pct(91)
    /\ call.candidate.colbert_score = Pct(90)
    /\ call.candidate.cross_encoder_score = Pct(91)
    /\ call.reasons = <<"High semantic similarity", "Cross-encoder verified">>

\* a finished rerank call touched and returned nothing beyond the first
\* top_k of its input, and returned at most min(limit, top_k) candidates
OnlyTopKReranked ==
    /\ \A i \in (call.top_k + 1)..Len(call.candidates) :
          /\ call.after[i] = call.candidates[i]
          /\ call.after[i].cross_encoder_score = 0
          /\ \A k \in 1..Len(call.returned) :
                call.returned[k].obj # call.candidates[i].obj
    /\ Len(call.returned) <= Min(call.limit, call.top_k)

\* C24 (as claimed): rerank works only on the first top_k candidates of its
\* input, however many are passed in: none beyond position top_k gets a
\* cross_encoder_score or is returned, and at most min(limit, top_k) are
\* returned.
C24_RerankOnlyTopK ==
    (call.called /\ call.op = "rerank") => OnlyTopKReranked

\* C24 (amended): with the re-rank stage enabled and a model configured,
\* rerank works only on the first top_k candidates of its input: none beyond
\* position top_k gets a cross_encoder_score or is returned, and at most
\* min(limit, top_k) are returned. (Skipped, it returns the first limit
\* candidates, beyond position top_k too.)
C24_EnabledRerankOnlyTopK ==
    (call.called /\ call.op = "rerank" /\ call.enabled /\ call.model) =>
        OnlyTopKReranked

C24_Witness ==
    /\ call.called /\ call.op = "rerank" /\ call.enabled /\ call.model
    /\ Len(call.candidates) > call.top_k
    /\ call.limit > call.top_k
    /\ Len(call.returned) = call.top_k
    /\ call.returned[1].cross_encoder_score > 0

\* C25: with the late-interaction stage enabled, score assigns
\* colbert_score to the first 50 input candidates only, returns none of the
\* candidates beyond position 50, and returns at most limit candidates in
\* non-increasing colbert_score order.
C25_EnabledScoreSlicesSortsCuts ==
    (call.called /\ call.op = "score_long") =>
        LET n == Len(call.candidates)
        IN /\ \A i \in 1..Min(n, ColbertSlice) :
                 call.after[i] =
                     [call.candidates[i] EXCEPT
                         !.colbert_score = call.similarity[call.candidates[i].incident_id]]
           /\ \A i \in (ColbertSlice + 1)..n :
                 /\ call.after[i] = call.candidates[i]
                 /\ \A k \in 1..Len(call.returned) :
                       call.returned[k].obj # call.candidates[i].obj
           /\ Len(call.returned) = Min(call.limit, Min(n, ColbertSlice))
           /\ \A k \in 1..(Len(call.returned) - 1) :
                 call.returned[k].colbert_score >= call.returned[k + 1].colbert_score
           /\ \A k \in 1..Len(call.returned) :
                 \A i \in 1..Min(n, ColbertSlice) :
                     call.after[i].colbert_score > call.returned[k].colbert_score =>
                         \E j \in 1..Len(call.returned) :
                             call.returned[j].obj = call.after[i].obj

C25_Witness ==
    /\ call.called /\ call.op = "score_long"
    /\ call.shape = "rising"
    /\ Len(call.candidates) > ColbertSlice
    /\ call.limit = ColbertLimit
    /\ Len(call.returned) = ColbertLimit
    /\ call.returned[1].obj = <<BI_ENCODER, ColbertSlice>>

\* the wrapper has returned or raised
RetryEnded == retry.pc \in {"returned", "raised"}

\* what holds of a call through async_retry at every moment
RetryBounded ==
    retry.called =>
        /\ Len(retry.outcomes) <= retry.max_attempts
        /\ \A k \in 1..(Len(retry.outcomes) - 1) : retry.outcomes[k] \in ListedErrors
        /\ retry.pc = "returned" =>
              /\ retry.outcomes[Len(retry.outcomes)] = "ok"
              /\ retry.result = <<"value", Len(retry.outcomes) - 1>>
        /\ (retry.pc = "raised"
               /\ \A k \in 1..Len(retry.outcomes) : retry.outcomes[k] \in ListedErrors) =>
              /\ Len(retry.outcomes) = retry.max_attempts
              /\ retry.raised = retry.outcomes[retry.max_attempts]
        /\ \A k \in 1..Len(retry.sleeps) :
              retry.sleeps[k] = retry.delay * Pow(retry.backoff, k - 1)
        /\ Len(retry.sleeps) < retry.max_attempts
        /\ Len(retry.sleeps) <= Len(retry.outcomes)
        /\ RetryEnded => Len(retry.sleeps) = Len(retry.outcomes) - 1

\* C27: a call through async_retry(max_attempts = n), n >= 1, invokes the
\* function at most n times, returns the first success without a further
\* attempt, raises the last exception when all n attempts raised a listed
\* one, sleeps delay*backoff^k between attempts only and never after the
\* last, and ends whenever each attempt ends.
C27_RetryBoundedAndEnds ==
    /\ []RetryBounded
    /\ [][RetryEnded => retry' = retry]_vars
    /\ <>RetryEnded

C27_Witness ==
    /\ retry.called
    /\ retry.pc = "raised"
    /\ retry.max_attempts = 3
    /\ retry.outcomes = <<"TimeoutError", "ConnectionError", "TimeoutError">>
    /\ retry.backoff = 3
    /\ retry.sleeps = <<retry.delay, retry.delay * 3>>

\* OPEN, and less than reset_timeout since the last failure
FreshlyOpen ==
    /\ breaker._state = OPEN
    /\ breaker.now - breaker._last_failure_time < breaker.reset_timeout

\* a step from a freshly open breaker admits nobody and leaves any caller it
\* answers with ServiceUnavailableError
RejectsWhileOpen ==
    (breaker.constructed /\ FreshlyOpen) =>
        \A c \in Callers :
            (breaker.callers[c].pc = "outside"
                /\ breaker'.callers[c] # breaker.callers[c]) =>
                breaker'.callers[c] = Outside("ServiceUnavailableError")

\* the step that records the failure completing a streak opens the breaker
OpensAtThreshold ==
    (breaker.constructed /\ breaker'.streak > breaker.streak
        /\ breaker'.streak >= breaker.failure_threshold) =>
        breaker'._state = OPEN

\* C28: after failure_threshold failed calls with no successful one in
\* between the breaker is OPEN (and not CLOSED until a call succeeds); while
\* it is OPEN with less than reset_timeout passed since the last failure
\* every attempt to enter is rejected with ServiceUnavailableError and the
\* protected call does not run; a HALF_OPEN period admits at most
\* half_open_max_calls calls.
C28_BreakerOpensAndRejects ==
    /\ [](breaker.constructed =>
            /\ breaker.streak >= breaker.failure_threshold => breaker._state # CLOSED
            /\ breaker.period_admitted <= breaker.half_open_max_calls)
    /\ [][OpensAtThreshold]_vars
    /\ [][RejectsWhileOpen]_vars

C28_Witness ==
    /\ breaker.constructed
    /\ breaker.failure_threshold = 2
    /\ breaker.streak = 2
    /\ FreshlyOpen
    /\ \E c \in Callers : breaker.callers[c] = Outside("ServiceUnavailableError")
    /\ breaker.half_open_max_calls = 1
    /\ breaker.period_admitted = 1

\* the step closes the breaker by the success of a call admitted in HALF_OPEN
ClosedByTrial ==
    \E c \in Callers :
        /\ breaker.callers[c].pc = "inside"
        /\ breaker.callers[c].admitted_in = HALF_OPEN
        /\ breaker'.callers[c] = Outside("returned")

\* C29 (as claimed): under any interleaving of calls through one breaker it
\* never goes from OPEN straight to CLOSED; it becomes CLOSED again only by
\* the success of a call admitted in HALF_OPEN, so a call admitted while
\* CLOSED that succeeds after the breaker opened does not close it.
C29_ClosesOnlyAfterTrial ==
    [][(breaker.constructed /\ breaker._state # CLOSED /\ breaker'._state = CLOSED) =>
          (breaker._state = HALF_OPEN /\ ClosedByTrial)]_vars

\* a step that grants grants the key of the call one request at the time
\* of the call, and a step answering False grants and records nothing
GrantsOnlyOnTrue ==
    limiter.constructed =>
        /\ limiter'.granted # limiter.granted =>
              /\ limiter'.last.called /\ limiter'.last.allowed
              /\ limiter'.granted =
                    [limiter.granted EXCEPT
                        ![limiter'.last.key][limiter.now] = @ + 1]
        /\ \A k \in Keys :
              Len(limiter'._buckets[k]) > Len(limiter._buckets[k]) =>
                  /\ limiter'.last.allowed /\ limiter'.last.key = k
                  /\ limiter'.granted # limiter.granted

\* a call for one key leaves the bucket of every other key as it was
OtherKeysKept ==
    limiter.constructed =>
        \A k \in Keys :
            limiter'._buckets[k] # limiter._buckets[k] => limiter'.last.key = k

\* C30: for every key and every instant t at most max_requests of the
\* is_allowed(key) calls that returned True carry a timestamp in
\* (t - window_seconds, t], however callers interleave; a call that returns
\* False records nothing; the answer for a key depends on that key's own
\* granted calls only.
C30_WindowNeverOverfull ==
    /\ [](limiter.constructed =>
            /\ \A k \in Keys : \A t \in 0..MaxClock :
                  InWindow(limiter.granted[k], t, limiter.window_seconds)
                      <= limiter.max_requests
            /\ limiter.last.called =>
                  (limiter.last.allowed <=> limiter.last.seen < limiter.max_requests))
    /\ [][GrantsOnlyOnTrue]_vars
    /\ [][OtherKeysKept]_vars

C30_Witness ==
    /\ limiter.constructed
    /\ limiter.max_requests = 2
    /\ limiter.window_seconds = 2
    /\ limiter.granted["user-1"][0] = 2
    /\ limiter.granted["user-1"][2] = 2
    /\ limiter.granted["user-2"][1] = 1
    /\ limiter.last.called /\ ~limiter.last.allowed
    /\ limiter.last.key = "user-1" /\ limiter.last.at = 3

====
